---- MODULE Spec2Model ----
(***************************************************************************)
(* Content indexing and tag-scoped retrieval of do_you_npc:                *)
(*   vectorstore/loader.py    TextFileLoader      (SourceCatalog)          *)
(*   vectorstore/manager.py   VectorStoreManager  (IndexLifecycleManager)  *)
(*   vectorstore/retriever.py TagRetriever        (ContextAssembler)       *)
(*                                                                         *)
(* Six specifications share the operators below:                           *)
(*   Spec         the manager driving the index and the checkpoint over a  *)
(*                changing source tree;                                    *)
(*   SpecCatalog  the loader's functions over every directory tree of a    *)
(*                bounded universe of paths;                               *)
(*   SpecRetr     the retriever's queries over every bounded index         *)
(*                content;                                                 *)
(*   SpecUse      a retriever working on the storage the manager           *)
(*                maintains, over a changing source tree;                  *)
(*   SpecConc     two processes calling get_vectorstore step by step over  *)
(*                an unchanging corpus;                                    *)
(*   SpecRace     one process calling create_vectorstore and               *)
(*                get_vectorstore step by step while files are written.    *)
(*                                                                         *)
(* The embedding index (Chroma) and the text splitter are collaborators:   *)
(* the index is a multiset of chunks with metadata, a query returns the    *)
(* best k chunks that match its metadata filter in an order the model      *)
(* leaves open, and a create/add call either stores its whole batch or     *)
(* raises.                                                                 *)
(***************************************************************************)
EXTENDS Integers, Sequences, FiniteSets, Bags, TLC

VARIABLES
    files,       \* source tree: relative path -> [mtime, ver, readable]
    ckptFile,    \* processed/last_updated.json: <<>> (absent) or <<timestamp>>
    storeFiles,  \* TRUE iff the vectorstore directory holds any entry
    index,       \* the persisted collection: a bag of chunks
    now,         \* the wall clock (datetime.now(), file mtimes)
    ret,         \* the last manager call and what it returned
    docs,        \* the last loader call and the documents it returned
    vectorstore, \* TagRetriever._vectorstore: "None" or "handle"
    hits,        \* the last retriever call and what it returned
    calls        \* the manager calls in progress, by process: where each
                 \* stands and what it holds in its local variables

vars == <<files, ckptFile, storeFiles, index, now, ret, docs, vectorstore, hits, calls>>

(***************************************************************************)
(* Bounds.                                                                 *)
(***************************************************************************)
MaxTime == 2
MaxCopies == 2
MaxChunks == 3
MaxK == 3

None == "<None>"

(***************************************************************************)
(* Paths are sequences of segments relative to data/source; a segment      *)
(* keeps pathlib's split of a name into stem and suffix.                   *)
(***************************************************************************)
Dir(n) == [stem |-> n, suffix |-> ""]
Txt(n) == [stem |-> n, suffix |-> ".txt"]

\* Path.name of a segment
Name(seg) == seg.stem \o seg.suffix

FileName(p) == p[Len(p)]

\* Path.rglob("*.txt") / Path.glob("*.txt"): the name ends in .txt
IsTxt(p) == FileName(p).suffix = ".txt"

GlobalA == <<Dir("global"), Dir("tags"), Txt("a")>>
CampA == <<Dir("campaigns"), Dir("c1"), Dir("tags"), Txt("a")>>

\* the paths the source tree of Spec draws its files from
SrcPaths == {GlobalA, CampA}

\* content versions of a file: version 1 is a short text (one chunk),
\* version 2 a text longer than chunk_size (two chunks)
Versions == {1, 2}

\* the contents each file of Spec is written with, and the files whose
\* reading can be made to fail
VersionsOf(p) == IF p = GlobalA THEN Versions ELSE {1}
Fragile == {CampA}

(***************************************************************************)
(* loader.py                                                               *)
(***************************************************************************)
\* a variant of _extract_metadata that takes the campaign from the wrong
\* path segment
ExtractMetadataWrongSegment(p) ==
    LET parts == p
        stem == FileName(p).stem
    IN  IF parts[1] = Dir("campaigns") /\ Len(parts) >= 4
        THEN [source |-> p, type |-> "campaign_tag",
              campaign |-> Name(parts[3]), tag_name |-> stem]
        ELSE IF parts[1] = Dir("global") /\ Len(parts) >= 3
        THEN [source |-> p, type |-> "global_tag", campaign |-> None, tag_name |-> stem]
        ELSE [source |-> p, type |-> "other", campaign |-> None, tag_name |-> stem]

\* TextFileLoader._extract_metadata: the path-derived keys (the stat keys
\* file_size and modified are read by no operation and are left out)
ExtractMetadata(p) ==
    LET parts == p
        stem == FileName(p).stem
    IN  IF parts[1] = Dir("campaigns") /\ Len(parts) >= 4
        THEN [source |-> p, type |-> "campaign_tag",
              campaign |-> Name(parts[2]), tag_name |-> stem]
        ELSE IF parts[1] = Dir("global") /\ Len(parts) >= 3
        THEN [source |-> p, type |-> "global_tag", campaign |-> None, tag_name |-> stem]
        ELSE [source |-> p, type |-> "other", campaign |-> None, tag_name |-> stem]

\* TextFileLoader.load_document: raises when the file cannot be read
CanLoad(fs, p) == p \in DOMAIN fs /\ fs[p].readable

LoadDocument(fs, p) == [page_content |-> fs[p].ver, metadata |-> ExtractMetadata(p)]

\* a variant of load_all_documents without the try/except: one file that
\* cannot be read ends the scan with nothing returned
LoadAllDocumentsAbort(fs) ==
    IF \E q \in DOMAIN fs : IsTxt(q) /\ ~CanLoad(fs, q) THEN {}
    ELSE {LoadDocument(fs, p) : p \in {q \in DOMAIN fs : IsTxt(q)}}

\* TextFileLoader.load_all_documents: every *.txt under the root, the ones
\* that raise skipped
LoadAllDocuments(fs) ==
    {LoadDocument(fs, p) : p \in {q \in DOMAIN fs : IsTxt(q) /\ CanLoad(fs, q)}}

\* Python truthiness of an optional string: None and "" are false
Truthy(x) == x # None /\ x # ""

\* d is a proper ancestor directory of path p
IsPrefix(d, p) == Len(d) < Len(p) /\ SubSeq(p, 1, Len(d)) = d

\* Path.exists() of a directory: the tree holds directories only as the
\* ancestors of its files
DirExists(fs, d) == \E p \in DOMAIN fs : IsPrefix(d, p)

\* Path.glob("*.txt"): the .txt files directly in d
Glob(fs, d) == {p \in DOMAIN fs : Len(p) = Len(d) + 1 /\ IsPrefix(d, p) /\ IsTxt(p)}

\* the scope directory of load_tag_documents and get_available_tags
TagDir(campaign) ==
    IF Truthy(campaign) THEN <<Dir("campaigns"), Dir(campaign), Dir("tags")>>
    ELSE <<Dir("global"), Dir("tags")>>

\* the files load_tag_documents reads in the scope directory tag_dir
TagFiles(fs, tag_dir, tag_name) ==
    LET single_file == Append(tag_dir, Txt(tag_name))
        multi_dir == Append(tag_dir, Dir(tag_name))
    IN  (IF single_file \in DOMAIN fs THEN {single_file} ELSE {})
            \cup (IF DirExists(fs, multi_dir) THEN Glob(fs, multi_dir) ELSE {})

\* a variant of load_tag_documents that falls back to the global directory
\* when the campaign has no file for the tag
LoadTagDocumentsFallback(fs, tag_name, campaign) ==
    LET own == TagFiles(fs, TagDir(campaign), tag_name)
        paths == IF own # {} THEN own ELSE TagFiles(fs, TagDir(None), tag_name)
    IN  IF \E p \in paths : ~CanLoad(fs, p) THEN [raised |-> TRUE, out |-> {}]
        ELSE [raised |-> FALSE, out |-> {LoadDocument(fs, p) : p \in paths}]

\* TextFileLoader.load_tag_documents: the documents, or the exception of the
\* first load_document that raises
LoadTagDocuments(fs, tag_name, campaign) ==
    LET tag_dir == TagDir(campaign)
        paths == TagFiles(fs, tag_dir, tag_name)
    IN  IF ~DirExists(fs, tag_dir) THEN [raised |-> FALSE, out |-> {}]
        ELSE IF \E p \in paths : ~CanLoad(fs, p) THEN [raised |-> TRUE, out |-> {}]
        ELSE [raised |-> FALSE, out |-> {LoadDocument(fs, p) : p \in paths}]

\* the directories directly in d
SubDirs(fs, d) == {SubSeq(p, 1, Len(d) + 1) : p \in {q \in DOMAIN fs :
                                                      IsPrefix(d, q) /\ Len(q) > Len(d) + 1}}

\* a variant of get_available_tags that counts every subdirectory
GetAvailableTagsAnySubdir(fs, campaign) ==
    LET tag_dir == TagDir(campaign)
    IN  IF ~DirExists(fs, tag_dir) THEN {}
        ELSE {FileName(p).stem : p \in Glob(fs, tag_dir)}
                \cup {Name(FileName(item)) : item \in SubDirs(fs, tag_dir)}

\* TextFileLoader.get_available_tags: the names of the sorted list it returns
GetAvailableTags(fs, campaign) ==
    LET tag_dir == TagDir(campaign)
    IN  IF ~DirExists(fs, tag_dir) THEN {}
        ELSE {FileName(p).stem : p \in Glob(fs, tag_dir)}
                \cup {Name(FileName(item)) :
                        item \in {d \in SubDirs(fs, tag_dir) : Glob(fs, d) # {}}}

\* rglob("*.txt"): the text files at any depth beneath d
RGlob(fs, d) == {p \in DOMAIN fs : IsPrefix(d, p) /\ IsTxt(p)}

\* a variant of get_available_campaigns that lists every campaign directory
GetAvailableCampaignsAnyDir(fs) ==
    {Name(FileName(item)) : item \in SubDirs(fs, <<Dir("campaigns")>>)}

\* TextFileLoader.get_available_campaigns: the names of the sorted list it
\* returns
GetAvailableCampaigns(fs) ==
    LET campaigns_dir == <<Dir("campaigns")>>
    IN  IF ~DirExists(fs, campaigns_dir) THEN {}
        ELSE {Name(FileName(item)) :
                item \in {d \in SubDirs(fs, campaigns_dir) :
                            LET tags_dir == d \o <<Dir("tags")>>
                            IN  DirExists(fs, tags_dir) /\ RGlob(fs, tags_dir) # {}}}

(***************************************************************************)
(* manager.py                                                              *)
(***************************************************************************)
ChunkSize == 1000
ChunkOverlap == 200

\* length in characters of a file's text, by content version
DocLen(ver) == IF ver = 1 THEN 50 ELSE 1200

\* RecursiveCharacterTextSplitter.split_documents on one document: pieces of
\* at most chunk_size characters, each starting chunk_size - chunk_overlap
\* after the previous one; every piece carries the document's metadata
SplitDocument(d) ==
    LET L == DocLen(d.page_content)
        step == ChunkSize - ChunkOverlap
        n == IF L <= ChunkSize THEN 1 ELSE ((L - ChunkOverlap) + step - 1) \div step
        lenOf(i) == IF L - (i - 1) * step < ChunkSize THEN L - (i - 1) * step ELSE ChunkSize
    IN  {[page_content |-> [ver |-> d.page_content, part |-> i, len |-> lenOf(i)],
          metadata |-> d.metadata] : i \in 1..n}

SplitDocuments(ds) == UNION {SplitDocument(d) : d \in ds}

\* VectorStoreManager.clean_vectorstore: rmtree and mkdir of the vectorstore
\* directory; processed/last_updated.json lives elsewhere and is not touched
CleanVectorstore(st) == [st EXCEPT !.store = FALSE, !.idx = EmptyBag]

\* VectorStoreManager.get_last_updated: None (<<>>) when the file is absent
GetLastUpdated(ck) == IF ck = <<>> THEN <<>> ELSE <<ck[1]>>

\* a variant of update_last_updated that records a time taken before the build
UpdateLastUpdatedEarly(t) == <<t - 1>>

\* VectorStoreManager.update_last_updated
UpdateLastUpdated(t) == <<t>>

\* the loop of needs_update over source_dir.rglob("*.txt")
RECURSIVE AnyNewer(_, _, _)
AnyNewer(fs, todo, last) ==
    IF todo = {} THEN FALSE
    ELSE LET p == CHOOSE q \in todo : TRUE
         IN  IF fs[p].mtime > last THEN TRUE ELSE AnyNewer(fs, todo \ {p}, last)

\* a variant of needs_update that compares with >= instead of >
NeedsUpdateInclusive(fs, ck) ==
    \/ ck = <<>>
    \/ \E p \in DOMAIN fs : IsTxt(p) /\ fs[p].mtime >= ck[1]

\* VectorStoreManager.needs_update
NeedsUpdate(fs, ck) ==
    LET last_updated == GetLastUpdated(ck)
    IN  IF last_updated = <<>> THEN TRUE
        ELSE AnyNewer(fs, {p \in DOMAIN fs : IsTxt(p)}, last_updated[1])

\* How the embedding and index calls of a build can end: "ok"; "raise", a
\* call raises (or the process dies) with nothing written; "raise_init", the
\* create call raises after Chroma has initialised its directory.
Outcomes == {"ok", "raise", "raise_init"}

\* a variant of the build step that always creates the collection anew
BuildIndexReplace(st, splits, o) ==
    IF o = "ok" THEN [st EXCEPT !.store = TRUE, !.idx = SetToBag(splits)] ELSE st

\* lines 123-136 of create_vectorstore: add to the existing collection when
\* the directory holds anything, create a new one otherwise
BuildIndex(st, splits, o) ==
    IF st.store
    THEN IF o = "ok" THEN [st EXCEPT !.idx = st.idx (+) SetToBag(splits)] ELSE st
    ELSE IF o = "ok" THEN [st EXCEPT !.store = TRUE, !.idx = SetToBag(splits)]
         ELSE IF o = "raise_init" THEN [st EXCEPT !.store = TRUE]
         ELSE st

\* a variant of create_vectorstore that writes the checkpoint before the
\* index call instead of after it
CreateVectorstoreCkptFirst(st, fs, t, clean_start, o) ==
    LET st0 == IF clean_start THEN CleanVectorstore(st) ELSE st
        documents == LoadAllDocuments(fs)
        splits == SplitDocuments(documents)
        st1 == [st0 EXCEPT !.ck = UpdateLastUpdated(t)]
    IN  IF documents = {} THEN [st |-> st0, result |-> "null"]
        ELSE [st |-> BuildIndex(st1, splits, o),
              result |-> IF o = "ok" THEN "handle" ELSE "error"]

\* a variant of create_vectorstore that empties the storage on every call
CreateVectorstoreAlwaysClean(st, fs, t, clean_start, o) ==
    LET st0 == CleanVectorstore(st)
        documents == LoadAllDocuments(fs)
        splits == SplitDocuments(documents)
    IN  IF documents = {} THEN [st |-> st0, result |-> "null"]
        ELSE IF o # "ok" THEN [st |-> BuildIndex(st0, splits, o), result |-> "error"]
        ELSE [st |-> [BuildIndex(st0, splits, o) EXCEPT !.ck = UpdateLastUpdated(t)],
              result |-> "handle"]

\* VectorStoreManager.create_vectorstore on the storage state
\* st = [store, idx, ck] at time t: the state it leaves and what it returns
CreateVectorstoreOn(st, fs, t, clean_start, o) ==
    LET st0 == IF clean_start THEN CleanVectorstore(st) ELSE st
        documents == LoadAllDocuments(fs)
        splits == SplitDocuments(documents)
    IN  IF documents = {} THEN [st |-> st0, result |-> "null"]
        ELSE IF o # "ok" THEN [st |-> BuildIndex(st0, splits, o), result |-> "error"]
        ELSE [st |-> [BuildIndex(st0, splits, o) EXCEPT !.ck = UpdateLastUpdated(t)],
              result |-> "handle"]

\* a variant of get_vectorstore without the needs_update branch
GetVectorstoreNoStaleCheck(st, fs, t, o) ==
    LET built == CreateVectorstoreOn(st, fs, t, FALSE, o)
    IN  IF ~st.store
        THEN [st |-> built.st, result |-> built.result, rebuilt |-> TRUE]
        ELSE [st |-> st, result |-> IF o = "ok" THEN "handle" ELSE "error",
              rebuilt |-> FALSE]

\* VectorStoreManager.get_vectorstore
GetVectorstoreOn(st, fs, t, o) ==
    LET built == CreateVectorstoreOn(st, fs, t, FALSE, o)
    IN  IF ~st.store
        THEN [st |-> built.st, result |-> built.result, rebuilt |-> TRUE]
        ELSE IF NeedsUpdate(fs, st.ck)
        THEN [st |-> built.st, result |-> built.result, rebuilt |-> TRUE]
        ELSE [st |-> st, result |-> IF o = "ok" THEN "handle" ELSE "error",
              rebuilt |-> FALSE]

(***************************************************************************)
(* Spec: the manager over a changing source tree.  Every call is one step; *)
(* a step of the environment (a file written, deleted or made unreadable,  *)
(* the clock advancing) forgets the last call's result.                    *)
(***************************************************************************)
Store == [store |-> storeFiles, idx |-> index, ck |-> ckptFile]

\* the processes that can run manager calls side by side
Procs == {1, 2}

\* a process outside any manager call; serial is FALSE once two calls have
\* been in progress at the same time
Idle == [pc |-> "idle", op |-> "none", splits |-> {}, result |-> "none", serial |-> TRUE]
NoCalls == [p \in Procs |-> Idle]

NoRet == [op |-> "none", clean |-> FALSE, result |-> "none", rebuilt |-> FALSE]
NoDocs == [op |-> "none", path |-> <<>>, tag |-> "", campaign |-> None,
           raised |-> FALSE, out |-> {}]
NoHits == [op |-> "none", query |-> "", tag |-> "", tags |-> <<>>, campaign |-> None,
           k |-> 0, raised |-> FALSE, out |-> <<>>, fallback |-> <<>>,
           max_length |-> 0]

\* no chunk is indexed more than MaxCopies times
Bounded(idx) == \A c \in BagToSet(idx) : CopiesIn(c, idx) <= MaxCopies

Init ==
    /\ files = <<>>
    /\ ckptFile = <<>>
    /\ storeFiles = FALSE
    /\ index = EmptyBag
    /\ now = 0
    /\ ret = NoRet
    /\ docs = NoDocs
    /\ vectorstore = "None"
    /\ hits = NoHits
    /\ calls = NoCalls

\* a file is created, rewritten or touched: its mtime becomes the current time
WriteFile(p, v) ==
    /\ files' = [q \in DOMAIN files \cup {p} |->
                    IF q = p THEN [mtime |-> now, ver |-> v, readable |-> TRUE]
                    ELSE files[q]]
    /\ files' # files
    /\ ret' = NoRet
    /\ UNCHANGED <<calls, ckptFile, storeFiles, index, now, docs, vectorstore, hits>>

DeleteFile(p) ==
    /\ p \in DOMAIN files
    /\ files' = [q \in DOMAIN files \ {p} |-> files[q]]
    /\ ret' = NoRet
    /\ UNCHANGED <<calls, ckptFile, storeFiles, index, now, docs, vectorstore, hits>>

\* the file's permissions or encoding make open()/read() raise; chmod leaves
\* the mtime alone
MakeUnreadable(p) ==
    /\ p \in DOMAIN files
    /\ files[p].readable
    /\ files' = [files EXCEPT ![p].readable = FALSE]
    /\ ret' = NoRet
    /\ UNCHANGED <<calls, ckptFile, storeFiles, index, now, docs, vectorstore, hits>>

Tick ==
    /\ now < MaxTime
    /\ now' = now + 1
    /\ ret' = NoRet
    /\ UNCHANGED <<calls, files, ckptFile, storeFiles, index, docs, vectorstore, hits>>

\* is_stale()
NeedsUpdateCall ==
    /\ ret' = [op |-> "is_stale", clean |-> FALSE,
               result |-> IF NeedsUpdate(files, ckptFile) THEN "true" ELSE "false",
               rebuilt |-> FALSE]
    /\ UNCHANGED <<calls, files, ckptFile, storeFiles, index, now, docs, vectorstore, hits>>

\* rebuild(clean)
CreateVectorstore(clean_start, o) ==
    LET r == CreateVectorstoreOn(Store, files, now, clean_start, o)
    IN  /\ Bounded(r.st.idx)
        /\ storeFiles' = r.st.store
        /\ index' = r.st.idx
        /\ ckptFile' = r.st.ck
        /\ ret' = [op |-> "rebuild", clean |-> clean_start, result |-> r.result,
                   rebuilt |-> TRUE]
        /\ UNCHANGED <<calls, files, now, docs, vectorstore, hits>>

\* get_or_refresh()
GetVectorstore(o) ==
    LET r == GetVectorstoreOn(Store, files, now, o)
    IN  /\ Bounded(r.st.idx)
        /\ storeFiles' = r.st.store
        /\ index' = r.st.idx
        /\ ckptFile' = r.st.ck
        /\ ret' = [op |-> "get_or_refresh", clean |-> FALSE, result |-> r.result,
                   rebuilt |-> r.rebuilt]
        /\ UNCHANGED <<calls, files, now, docs, vectorstore, hits>>

Next ==
    \/ \E p \in SrcPaths : \E v \in VersionsOf(p) : WriteFile(p, v)
    \/ \E p \in SrcPaths : DeleteFile(p)
    \/ \E p \in Fragile : MakeUnreadable(p)
    \/ Tick
    \/ NeedsUpdateCall
    \/ \E c \in BOOLEAN, o \in Outcomes : CreateVectorstore(c, o)
    \/ \E o \in Outcomes : GetVectorstore(o)

Spec == Init /\ [][Next]_vars

(***************************************************************************)
(* Claims about the manager, checked under Spec.                           *)
(***************************************************************************)
\* some source text file is strictly newer than the checkpoint
SomeFileNewer == \E p \in DOMAIN files : IsTxt(p) /\ files[p].mtime > ckptFile[1]

\* the chunks a rebuild would index now
CurrentSplits == SplitDocuments(LoadAllDocuments(files))

\* C4: whenever is_stale() has just returned, it returned true exactly when
\* no checkpoint exists or some source text file has a modification time
\* strictly later than the checkpoint's timestamp.
C4_IsStaleExact ==
    ret.op = "is_stale" =>
        ((ret.result = "true") <=> (ckptFile = <<>> \/ SomeFileNewer))

\* is_stale() returned true although a checkpoint exists
C4_Witness == ret.op = "is_stale" /\ ret.result = "true" /\ ckptFile # <<>>

\* C5: a step that writes a file so that its mtime is past the existing
\* checkpoint leaves is_stale() true; a rebuild that has just succeeded
\* leaves is_stale() false; and is_stale() stays false over every step that
\* changes no source file.
C5_StaleAfterBumpFreshAfterBuild ==
    [][ /\ \A p \in SrcPaths : \A v \in Versions :
              (files' # files /\ ckptFile # <<>> /\ WriteFile(p, v)
                  /\ files'[p].mtime > ckptFile[1])
                  => NeedsUpdate(files', ckptFile')
        /\ (ret'.op = "rebuild" /\ ret'.result = "handle")
              => ~NeedsUpdate(files', ckptFile')
        /\ (~NeedsUpdate(files, ckptFile) /\ files' = files)
              => ~NeedsUpdate(files', ckptFile') ]_vars

\* a rebuild has just succeeded in the very clock tick a file was written in
C5_Witness ==
    /\ ret.op = "rebuild" /\ ret.result = "handle"
    /\ \E p \in DOMAIN files : files[p].mtime = ckptFile[1]
    /\ ~NeedsUpdate(files, ckptFile)

\* C6: a rebuild whose create/add call fails raises and leaves the
\* checkpoint as it was; a rebuild that does not return a handle never
\* changes the checkpoint; and a rebuild that returns a handle has stored
\* every chunk of the loaded documents and written the current time.
C6_CheckpointAllOrNothing ==
    [][ \A c \in BOOLEAN : \A o \in Outcomes :
            (ret'.op = "rebuild" /\ CreateVectorstore(c, o)) =>
                /\ (o # "ok" /\ LoadAllDocuments(files) # {})
                      => (ret'.result = "error" /\ ckptFile' = ckptFile)
                /\ ret'.result # "handle" => ckptFile' = ckptFile
                /\ ret'.result = "handle" =>
                      /\ ckptFile' = <<now>>
                      /\ storeFiles'
                      /\ \A ch \in CurrentSplits : BagIn(ch, index') ]_vars

\* a rebuild has just failed and an older checkpoint is still in place
C6_Witness ==
    /\ ret.op = "rebuild" /\ ret.result = "error"
    /\ ckptFile # <<>> /\ ckptFile[1] < now

\* C7 (as claimed): after a rebuild that failed, is_stale() is true.
C7_FailedRebuildLeavesStale ==
    (ret.op = "rebuild" /\ ret.result = "error") => NeedsUpdate(files, ckptFile)

\* C8 (as claimed): a rebuild that finds no documents returns null and
\* leaves the index storage and the checkpoint unchanged.
C8_EmptyCorpusNoOp ==
    [][ \A c \in BOOLEAN : \A o \in Outcomes :
            (ret'.op = "rebuild" /\ LoadAllDocuments(files) = {}
                /\ CreateVectorstore(c, o)) =>
                /\ ret'.result = "null"
                /\ index' = index /\ storeFiles' = storeFiles
                /\ ckptFile' = ckptFile ]_vars

\* C9: get_or_refresh runs a rebuild exactly when the storage is empty or
\* is_stale() is true; on an empty storage the step is that of a clean
\* rebuild, on a non-empty stale one that of a non-clean rebuild, and
\* otherwise storage and checkpoint are unchanged and, unless opening the
\* index raises, a handle is returned.
C9_GetOrRefreshWritesOnlyWhenNeeded ==
    [][ \A o \in Outcomes :
            (ret'.op = "get_or_refresh" /\ GetVectorstore(o)) =>
                LET empty == ~storeFiles
                    stale == NeedsUpdate(files, ckptFile)
                    after == [store |-> storeFiles', idx |-> index', ck |-> ckptFile']
                    clean == CreateVectorstoreOn(Store, files, now, TRUE, o)
                    append == CreateVectorstoreOn(Store, files, now, FALSE, o)
                IN  /\ ret'.rebuilt <=> (empty \/ stale)
                    /\ empty => (after = clean.st /\ ret'.result = clean.result)
                    /\ (~empty /\ stale)
                          => (after = append.st /\ ret'.result = append.result)
                    /\ (~empty /\ ~stale)
                          => /\ after = Store
                             /\ o = "ok" => ret'.result = "handle" ]_vars

\* get_or_refresh has just returned a handle to a fresh, non-empty index
\* without rebuilding
C9_Witness ==
    /\ ret.op = "get_or_refresh" /\ ~ret.rebuilt /\ ret.result = "handle"
    /\ storeFiles /\ index # EmptyBag /\ ckptFile # <<>>

\* C10: a non-clean rebuild (called directly or through get_or_refresh)
\* removes no chunk, and one that succeeds adds exactly one copy of every
\* chunk of every loadable source file and nothing else.
C10_NonCleanRebuildOnlyGrows ==
    [][ \A o \in Outcomes :
            (ret'.rebuilt /\ (CreateVectorstore(FALSE, o) \/ GetVectorstore(o))) =>
                /\ index \sqsubseteq index'
                /\ (ret'.result = "handle" /\ ret'.rebuilt)
                      => index' = index (+) SetToBag(CurrentSplits) ]_vars

\* a second non-clean rebuild over the same corpus has left two copies of
\* every chunk
C10_Witness ==
    /\ ret.op = "rebuild" /\ ~ret.clean /\ ret.result = "handle"
    /\ CurrentSplits # {}
    /\ \A ch \in CurrentSplits : CopiesIn(ch, index) = 2

\* C27: a step that deletes a source file leaves the index alone and does
\* not turn is_stale() from false to true; and a step that takes a chunk out
\* of the index is a rebuild(clean=true), so that chunks of deleted files
\* and of old contents stay through every get_or_refresh and non-clean
\* rebuild.
C27_OnlyCleanRebuildRemoves ==
    [][ /\ (files' # files /\ DOMAIN files' # DOMAIN files
              /\ DOMAIN files' \subseteq DOMAIN files) =>
              /\ index' = index
              /\ NeedsUpdate(files', ckptFile') => NeedsUpdate(files, ckptFile)
        /\ (index' # index /\ ~(index \sqsubseteq index')) =>
              (ret'.op = "rebuild" /\ ret'.clean) ]_vars

\* a non-clean rebuild or a get_or_refresh has just returned a handle, no
\* file is stale, and the index still holds a chunk of a file that exists
\* no more
C27_Witness ==
    /\ ret.op \in {"rebuild", "get_or_refresh"} /\ ~ret.clean
    /\ ret.rebuilt /\ ret.result = "handle"
    /\ ~NeedsUpdate(files, ckptFile)
    /\ \E ch \in BagToSet(index) : ch.metadata.source \notin DOMAIN files

\* after a non-clean re-indexing of a modified file the index holds the
\* chunks of its old content next to those of the new
C27_WitnessOldContent ==
    /\ ret.rebuilt /\ ~ret.clean /\ ret.result = "handle"
    /\ \E ch \in BagToSet(index) :
          /\ ch.metadata.source \in DOMAIN files
          /\ ch.page_content.ver # files[ch.metadata.source].ver
    /\ \A ch \in CurrentSplits : BagIn(ch, index)

\* C30 (as claimed): a handle that get_or_refresh returns never refers to
\* an empty index.
C30_HandleNeverToEmptyIndex ==
    (ret.op = "get_or_refresh" /\ ret.result = "handle") => index # EmptyBag

\* get_or_refresh has opened, without building, an index that holds nothing
\* although source files can be loaded
C30_OpenedEmptyIndex ==
    /\ ret.op = "get_or_refresh" /\ ret.result = "handle" /\ ~ret.rebuilt
    /\ index = EmptyBag /\ CurrentSplits # {}

(***************************************************************************)
(* SpecCatalog: the loader over every directory tree drawn from CatPaths.  *)
(* Each call is one step on a tree that does not change; the caller takes  *)
(* the result before the next call.                                        *)
(***************************************************************************)
CatPaths ==
    { <<Dir("global"), Dir("tags"), Txt("a")>>,
      <<Dir("global"), Dir("tags"), Dir("a"), Txt("x")>>,
      <<Dir("global"), Dir("tags"), Dir("b"), Txt("a")>>,
      <<Dir("global"), Dir("tags"), Dir("a"), Dir("deep"), Txt("b")>>,
      <<Dir("global"), Dir("other"), Txt("a")>>,
      <<Dir("global"), Txt("b")>>,
      <<Dir("campaigns"), Dir("c1"), Dir("tags"), Txt("a")>>,
      <<Dir("campaigns"), Dir("c1"), Dir("tags"), Dir("a"), Txt("x")>>,
      <<Dir("campaigns"), Dir("c1"), Dir("notes"), Txt("b")>>,
      <<Dir("campaigns"), Dir("c2"), Dir("tags"), Txt("b")>>,
      <<Dir("campaigns"), Dir("c2"), Dir("tags"), Dir("b"), Dir("deep"), Txt("x")>>,
      <<Txt("a")>> }

\* the files of CatPaths that may be unreadable
CatFragile == { <<Dir("campaigns"), Dir("c1"), Dir("tags"), Dir("a"), Txt("x")>> }

TagArgs == {"a", "b", "x"}
CampaignArgs == {None, "", "c1", "c2"}

InitCatalog ==
    /\ \E S \in SUBSET CatPaths : \E U \in SUBSET (S \cap CatFragile) :
          files = [p \in S |-> [mtime |-> 0, ver |-> 1, readable |-> p \notin U]]
    /\ ckptFile = <<>>
    /\ storeFiles = FALSE
    /\ index = EmptyBag
    /\ now = 0
    /\ ret = NoRet
    /\ docs = NoDocs
    /\ vectorstore = "None"
    /\ hits = NoHits
    /\ calls = NoCalls

\* load_for_tag(tag_name, campaign)
LoadTagDocumentsCall(t, c) ==
    LET r == LoadTagDocuments(files, t, c)
    IN  /\ docs = NoDocs
        /\ docs' = [op |-> "load_for_tag", path |-> <<>>, tag |-> t, campaign |-> c,
                    raised |-> r.raised, out |-> r.out]
        /\ UNCHANGED <<calls, files, ckptFile, storeFiles, index, now, ret, vectorstore, hits>>

\* classify(path) of an existing file (the method stats the file)
ExtractMetadataCall(p) ==
    /\ p \in DOMAIN files
    /\ docs = NoDocs
    /\ docs' = [op |-> "classify", path |-> p, tag |-> "", campaign |-> None,
                raised |-> FALSE, out |-> {ExtractMetadata(p)}]
    /\ UNCHANGED <<calls, files, ckptFile, storeFiles, index, now, ret, vectorstore, hits>>

\* load_document(path)
LoadDocumentCall(p) ==
    /\ docs = NoDocs
    /\ docs' = [op |-> "load_document", path |-> p, tag |-> "", campaign |-> None,
                raised |-> ~CanLoad(files, p),
                out |-> IF CanLoad(files, p) THEN {LoadDocument(files, p)} ELSE {}]
    /\ UNCHANGED <<calls, files, ckptFile, storeFiles, index, now, ret, vectorstore, hits>>

\* load_all(); the loop catches every exception of load_document
LoadAllDocumentsCall ==
    /\ docs = NoDocs
    /\ docs' = [op |-> "load_all", path |-> <<>>, tag |-> "", campaign |-> None,
                raised |-> FALSE, out |-> LoadAllDocuments(files)]
    /\ UNCHANGED <<calls, files, ckptFile, storeFiles, index, now, ret, vectorstore, hits>>

\* list_tags(campaign); out holds the names
GetAvailableTagsCall(c) ==
    /\ docs = NoDocs
    /\ docs' = [op |-> "list_tags", path |-> <<>>, tag |-> "", campaign |-> c,
                raised |-> FALSE, out |-> GetAvailableTags(files, c)]
    /\ UNCHANGED <<calls, files, ckptFile, storeFiles, index, now, ret, vectorstore, hits>>

\* list_campaigns(); out holds the names
GetAvailableCampaignsCall ==
    /\ docs = NoDocs
    /\ docs' = [op |-> "list_campaigns", path |-> <<>>, tag |-> "", campaign |-> None,
                raised |-> FALSE, out |-> GetAvailableCampaigns(files)]
    /\ UNCHANGED <<calls, files, ckptFile, storeFiles, index, now, ret, vectorstore, hits>>

\* the caller drops the result of the last loader call
ForgetDocs ==
    /\ docs # NoDocs
    /\ docs' = NoDocs
    /\ UNCHANGED <<calls, files, ckptFile, storeFiles, index, now, ret, vectorstore, hits>>

NextCatalog ==
    \/ ForgetDocs
    \/ \E t \in TagArgs : \E c \in CampaignArgs : LoadTagDocumentsCall(t, c)
    \/ \E p \in CatPaths : ExtractMetadataCall(p)
    \/ \E p \in CatPaths : LoadDocumentCall(p)
    \/ LoadAllDocumentsCall
    \/ \E c \in CampaignArgs : GetAvailableTagsCall(c)
    \/ GetAvailableCampaignsCall

SpecCatalog == InitCatalog /\ [][NextCatalog]_vars

\* the campaign a request is for: a request without a campaign name is global
Requested(c) == IF Truthy(c) THEN c ELSE None

\* C3: every document load_for_tag returns carries the requested campaign
\* in its metadata (None for a global request), whatever else the tree holds.
C3_LoadForTagScoped ==
    docs.op = "load_for_tag" =>
        \A d \in docs.out : d.metadata.campaign = Requested(docs.campaign)

\* a campaign request has returned the campaign's single-file and directory
\* documents of a tag for which a global file exists too
C3_Witness ==
    /\ docs.op = "load_for_tag" /\ docs.campaign = "c1" /\ docs.tag = "a"
    /\ Cardinality(docs.out) = 2
    /\ <<Dir("global"), Dir("tags"), Txt("a")>> \in DOMAIN files

\* the path shapes campaigns/<c>/tags/<t>.txt and global/tags/<t>.txt
IsCampaignTagPath(p) ==
    Len(p) = 4 /\ p[1] = Dir("campaigns") /\ p[3] = Dir("tags") /\ IsTxt(p)

IsGlobalTagPath(p) ==
    Len(p) = 3 /\ p[1] = Dir("global") /\ p[2] = Dir("tags") /\ IsTxt(p)

\* C16: classify of a path campaigns/<c>/tags/<t>.txt returns scope
\* campaign_tag, campaign c and tag_name t; of a path global/tags/<t>.txt
\* scope global_tag, no campaign and tag_name t; and whenever it returns
\* scope campaign_tag the campaign is not None.
C16_ClassifyTagPaths ==
    docs.op = "classify" =>
        \A m \in docs.out :
            /\ IsCampaignTagPath(docs.path) =>
                  /\ m.type = "campaign_tag"
                  /\ m.campaign = Name(docs.path[2])
                  /\ m.tag_name = docs.path[4].stem
            /\ IsGlobalTagPath(docs.path) =>
                  /\ m.type = "global_tag"
                  /\ m.campaign = None
                  /\ m.tag_name = docs.path[3].stem
            /\ m.type = "campaign_tag" => m.campaign # None

\* campaigns/c2/tags/b.txt has been classified as a tag b of campaign c2
C16_Witness ==
    /\ docs.op = "classify"
    /\ docs.path = <<Dir("campaigns"), Dir("c2"), Dir("tags"), Txt("b")>>
    /\ \E m \in docs.out : m.campaign = "c2" /\ m.tag_name = "b"

\* C17 (as claimed): classify of a path of neither shape returns scope
\* other, no campaign and the file's stem.
C17_ClassifyOtherPaths ==
    (docs.op = "classify" /\ ~IsCampaignTagPath(docs.path) /\ ~IsGlobalTagPath(docs.path))
        => \A m \in docs.out :
              /\ m.type = "other"
              /\ m.campaign = None
              /\ m.tag_name = FileName(docs.path).stem

\* C18: list_tags(campaign) returns exactly the names t for which the scope
\* directory holds the file <t>.txt or a directory <t> with a *.txt file
\* directly in it; nothing when the scope directory does not exist; and
\* {a, b} when global/tags holds just a.txt and the directory b with a file.
C18_ListTagsExact ==
    docs.op = "list_tags" =>
        LET scope == IF Truthy(docs.campaign)
                     THEN <<Dir("campaigns"), Dir(docs.campaign), Dir("tags")>>
                     ELSE <<Dir("global"), Dir("tags")>>
            under == {p \in DOMAIN files :
                        Len(p) > Len(scope) /\ SubSeq(p, 1, Len(scope)) = scope}
            single == {p[Len(scope) + 1].stem :
                         p \in {q \in under : Len(q) = Len(scope) + 1 /\ IsTxt(q)}}
            multi == {Name(p[Len(scope) + 1]) :
                        p \in {q \in under : Len(q) = Len(scope) + 2 /\ IsTxt(q)}}
        IN  /\ docs.out = single \cup multi
            /\ under = {} => docs.out = {}
            /\ (~Truthy(docs.campaign)
                   /\ under = {<<Dir("global"), Dir("tags"), Txt("a")>>,
                               <<Dir("global"), Dir("tags"), Dir("b"), Txt("a")>>})
                  => docs.out = {"a", "b"}

\* list_tags(None) has returned {a, b} for a tree whose global/tags holds
\* a.txt, a/x.txt and b/a.txt, and a file two levels below a
C18_Witness ==
    /\ docs.op = "list_tags" /\ docs.campaign = None /\ docs.out = {"a", "b"}
    /\ {<<Dir("global"), Dir("tags"), Txt("a")>>,
         <<Dir("global"), Dir("tags"), Dir("a"), Txt("x")>>,
         <<Dir("global"), Dir("tags"), Dir("b"), Txt("a")>>,
         <<Dir("global"), Dir("tags"), Dir("a"), Dir("deep"), Txt("b")>>}
            \subseteq DOMAIN files

\* C19: load_all never raises and returns exactly one document for every
\* readable *.txt file of the tree and none for an unreadable one;
\* load_document raises exactly when its file is missing or unreadable and
\* otherwise returns the file's document.
C19_LoadAllSkipsUnreadable ==
    /\ docs.op = "load_all" =>
          /\ ~docs.raised
          /\ \A p \in DOMAIN files :
                (IsTxt(p) /\ files[p].readable)
                    <=> (\E d \in docs.out : d.metadata.source = p)
          /\ Cardinality(docs.out)
                = Cardinality({p \in DOMAIN files : IsTxt(p) /\ files[p].readable})
          /\ \A d \in docs.out : d.page_content = files[d.metadata.source].ver
    /\ docs.op = "load_document" =>
          /\ docs.raised <=> (docs.path \notin DOMAIN files \/ ~files[docs.path].readable)
          /\ ~docs.raised =>
                (\E d \in docs.out : docs.out = {d} /\ d.metadata.source = docs.path)

\* load_all has returned the documents of the readable files of a tree that
\* holds an unreadable file
C19_Witness ==
    /\ docs.op = "load_all" /\ docs.out # {}
    /\ \E p \in DOMAIN files : ~files[p].readable

\* load_document has raised on a file that exists but cannot be read
C19_WitnessRaise ==
    /\ docs.op = "load_document" /\ docs.raised
    /\ docs.path \in DOMAIN files

\* C28 (as claimed): every document load_for_tag(t, c) returns carries the
\* metadata tag_name = t.
C28_LoadedDocsCarryTag ==
    (docs.op = "load_for_tag" /\ ~docs.raised)
        => \A d \in docs.out : d.metadata.tag_name = docs.tag

\* every file of the tree can be read
AllReadable == \A p \in DOMAIN files : files[p].readable

\* on a tree of readable files, list_tags and load_for_tag agree: a name is
\* listed for a scope exactly when load_for_tag returns a document for it
ListAndLoadAgree ==
    /\ (docs.op = "list_tags" /\ AllReadable) =>
          \A t \in docs.out \cup TagArgs :
              (t \in docs.out) <=> (LoadTagDocuments(files, t, docs.campaign).out # {})
    /\ (docs.op = "load_for_tag" /\ AllReadable) =>
          /\ ~docs.raised
          /\ (docs.out # {}) <=> (docs.tag \in GetAvailableTags(files, docs.campaign))

\* C29 (as claimed): list_tags and load_for_tag agree, and every campaign
\* list_campaigns returns has a non-empty list_tags.
C29_ListedCampaignsHaveTags ==
    /\ ListAndLoadAgree
    /\ docs.op = "list_campaigns" =>
          \A c \in docs.out : GetAvailableTags(files, c) # {}

\* C29 (amended): list_tags and load_for_tag agree, and every campaign
\* list_campaigns returns has a text file at some depth beneath its tags
\* directory; its list_tags is non-empty exactly when one of them lies in
\* the tags directory or in a subdirectory of it.
C29_ListedCampaignsHaveTextBelowTags ==
    /\ ListAndLoadAgree
    /\ docs.op = "list_campaigns" =>
          \A c \in docs.out :
              LET below == {p \in DOMAIN files :
                              /\ IsTxt(p) /\ Len(p) >= 4
                              /\ SubSeq(p, 1, 3)
                                    = <<Dir("campaigns"), Dir(c), Dir("tags")>>}
              IN  /\ below # {}
                  /\ (GetAvailableTags(files, c) # {})
                        <=> (\E p \in below : Len(p) <= 5)

\* list_campaigns has returned a campaign whose list_tags is empty, next to
\* one whose list_tags is not
C29_Witness ==
    /\ docs.op = "list_campaigns" /\ AllReadable
    /\ \E c \in docs.out : GetAvailableTags(files, c) = {}
    /\ \E c \in docs.out : GetAvailableTags(files, c) # {}

\* load_for_tag has returned the documents of a tag that list_tags lists
C29_WitnessAgree ==
    /\ docs.op = "load_for_tag" /\ AllReadable
    /\ Cardinality(docs.out) = 2
    /\ docs.tag \in GetAvailableTags(files, docs.campaign)

(***************************************************************************)
(* retriever.py                                                            *)
(***************************************************************************)
MaxContentLen == 300
PerTagK == 2

Min(a, b) == IF a < b THEN a ELSE b

\* list[:k] for k >= 0
Take(s, k) == SubSeq(s, 1, Min(k, Len(s)))

\* Chroma's filter: an exact match on every metadata key it names
Matches(ch, flt) == \A key \in DOMAIN flt : ch.metadata[key] = flt[key]

\* Chroma.similarity_search(query, k, filter): the k best chunks among those
\* the filter matches (all of them when there are fewer), best first; which
\* chunks are best for a query text is the index's own matter, so every
\* order is a possible result
SimilaritySearch(idx, k, flt) ==
    LET sub == [ch \in {c \in BagToSet(idx) : Matches(c, flt)} |-> idx[ch]]
        n == Min(k, BagCardinality(sub))
    IN  {r \in [1..n -> DOMAIN sub] :
            \A ch \in DOMAIN sub : Cardinality({i \in 1..n : r[i] = ch}) <= sub[ch]}

\* the filter of search_tags
CampaignFilter(campaign) ==
    IF Truthy(campaign) THEN [key \in {"campaign"} |-> campaign]
    ELSE [key \in {} |-> None]

\* a variant of the search_by_tag_name filter that leaves the campaign out
TagFilterNoCampaign(tag_name, campaign) == [key \in {"tag_name"} |-> tag_name]

\* the filter of search_by_tag_name
TagFilter(tag_name, campaign) ==
    IF Truthy(campaign)
    THEN [key \in {"tag_name", "campaign"} |->
              IF key = "tag_name" THEN tag_name ELSE campaign]
    ELSE [key \in {"tag_name"} |-> tag_name]

\* TagRetriever.search_tags: the possible results; has says whether
\* self.vectorstore is a handle
SearchTags(has, idx, query, k, campaign) ==
    IF ~has THEN {<<>>} ELSE SimilaritySearch(idx, k, CampaignFilter(campaign))

\* TagRetriever.search_by_tag_name
SearchByTagName(has, idx, tag_name, campaign, k) ==
    IF ~has THEN {<<>>} ELSE SimilaritySearch(idx, k, TagFilter(tag_name, campaign))

\* a variant of the truncation that marks a long text but keeps all of it
TruncateNoCut(content, n) ==
    [text |-> content, kept |-> content.len, ellipsis |-> content.len > n]

\* content[:n] + "..." when the text is longer than n: the text it was cut
\* from, the characters kept and whether the marker was appended
Truncate(content, n) ==
    IF content.len > n THEN [text |-> content, kept |-> n, ellipsis |-> TRUE]
    ELSE [text |-> content, kept |-> content.len, ellipsis |-> FALSE]

\* len() of a truncated text
StrLen(str) == str.kept + (IF str.ellipsis THEN 3 ELSE 0)

\* one (tag_name, content) pair of get_relevant_tags_for_persona; chunk, the
\* document the pair was made from, and origin, the loop that appended it
\* ("tag" or "query"), are kept for the claims only
Entry(tag_name, doc, origin) ==
    [tag_name |-> tag_name, content |-> Truncate(doc.page_content, MaxContentLen),
     chunk |-> doc, origin |-> origin]

\* a variant of the loop over persona_tags that fetches one chunk per tag
RECURSIVE TagEntriesOnePerTag(_, _, _, _)
TagEntriesOnePerTag(has, idx, persona_tags, campaign) ==
    IF persona_tags = <<>> THEN {<<>>}
    ELSE LET tag_name == Head(persona_tags)
             first == {[i \in 1..Len(r) |-> Entry(tag_name, r[i], "tag")] :
                          r \in SearchByTagName(has, idx, tag_name, campaign, 1)}
         IN  {a \o b : a \in first,
                       b \in TagEntriesOnePerTag(has, idx, Tail(persona_tags), campaign)}

\* the loop over persona_tags: the possible accumulated lists
RECURSIVE TagEntries(_, _, _, _)
TagEntries(has, idx, persona_tags, campaign) ==
    IF persona_tags = <<>> THEN {<<>>}
    ELSE LET tag_name == Head(persona_tags)
             first == {[i \in 1..Len(r) |-> Entry(tag_name, r[i], "tag")] :
                          r \in SearchByTagName(has, idx, tag_name, campaign, PerTagK)}
         IN  {a \o b : a \in first, b \in TagEntries(has, idx, Tail(persona_tags), campaign)}

\* the pairs appended for the documents of the free-text search
QueryEntries(r) == [i \in 1..Len(r) |-> Entry(r[i].metadata.tag_name, r[i], "query")]

\* the search_tags call of the free-text search, as the method made it
SearchCall(query, k, campaign) == [query |-> query, k |-> k, campaign |-> campaign]

\* a variant of get_relevant_tags_for_persona that puts the pairs of the
\* free-text search in front of the pairs of the declared tags
GetRelevantTagsForPersonaQueryFirst(has, idx, persona_tags, query, campaign, k) ==
    IF ~has THEN {[out |-> <<>>, fallback |-> <<>>]}
    ELSE UNION {
        IF query # "" /\ Len(acc) < k
        THEN {[out |-> Take(QueryEntries(r) \o acc, k),
               fallback |-> <<SearchCall(query, k - Len(acc), campaign)>>] :
                 r \in SearchTags(has, idx, query, k - Len(acc), campaign)}
        ELSE {[out |-> Take(acc, k), fallback |-> <<>>]}
        : acc \in TagEntries(has, idx, persona_tags, campaign)}

\* a variant of get_relevant_tags_for_persona that returns the whole
\* accumulated list
GetRelevantTagsForPersonaNoCap(has, idx, persona_tags, query, campaign, k) ==
    IF ~has THEN {[out |-> <<>>, fallback |-> <<>>]}
    ELSE UNION {
        IF query # "" /\ Len(acc) < k
        THEN {[out |-> acc \o QueryEntries(r),
               fallback |-> <<SearchCall(query, k - Len(acc), campaign)>>] :
                 r \in SearchTags(has, idx, query, k - Len(acc), campaign)}
        ELSE {[out |-> acc, fallback |-> <<>>]}
        : acc \in TagEntries(has, idx, persona_tags, campaign)}

\* a variant of get_relevant_tags_for_persona that runs the free-text
\* search for every non-empty query, with the caller's k
GetRelevantTagsForPersonaAlwaysQuery(has, idx, persona_tags, query, campaign, k) ==
    IF ~has THEN {[out |-> <<>>, fallback |-> <<>>]}
    ELSE UNION {
        IF query # ""
        THEN {[out |-> Take(acc \o QueryEntries(r), k),
               fallback |-> <<SearchCall(query, k, campaign)>>] :
                 r \in SearchTags(has, idx, query, k, campaign)}
        ELSE {[out |-> Take(acc, k), fallback |-> <<>>]}
        : acc \in TagEntries(has, idx, persona_tags, campaign)}

\* TagRetriever.get_relevant_tags_for_persona: the possible results, each
\* with the free-text searches the call made (kept for the claims)
GetRelevantTagsForPersona(has, idx, persona_tags, query, campaign, k) ==
    IF ~has THEN {[out |-> <<>>, fallback |-> <<>>]}
    ELSE UNION {
        IF query # "" /\ Len(acc) < k
        THEN {[out |-> Take(acc \o QueryEntries(r), k),
               fallback |-> <<SearchCall(query, k - Len(acc), campaign)>>] :
                 r \in SearchTags(has, idx, query, k - Len(acc), campaign)}
        ELSE {[out |-> Take(acc, k), fallback |-> <<>>]}
        : acc \in TagEntries(has, idx, persona_tags, campaign)}

\* the default k of get_relevant_tags_for_persona
DefaultK == 10

SummaryK == 3
DefaultMaxLength == 500
MetadataK == 100

\* len() of the texts of a list of chunks, each followed by sep characters
RECURSIVE JoinedLen(_, _)
JoinedLen(documents, sep) ==
    IF documents = <<>> THEN 0
    ELSE Head(documents).page_content.len + sep + JoinedLen(Tail(documents), sep)

\* the string get_tag_summary returns for the chunks it was given: the
\* sentinel, or the chunk texts each followed by "\n\n", cut to max_length
\* characters plus "..." when longer, then strip()ped (chunk texts carry no
\* outer whitespace, so strip() removes the last "\n\n" of an uncut text)
Summary(tag_name, documents, max_length) ==
    LET combined == JoinedLen(documents, 2)
    IN  IF documents = <<>>
        THEN [kind |-> "sentinel", tag_name |-> tag_name, docs |-> <<>>,
              kept |-> 0, ellipsis |-> FALSE]
        ELSE IF combined > max_length
        THEN [kind |-> "text", tag_name |-> tag_name, docs |-> documents,
              kept |-> max_length, ellipsis |-> TRUE]
        ELSE [kind |-> "text", tag_name |-> tag_name, docs |-> documents,
              kept |-> combined - 2, ellipsis |-> FALSE]

\* a variant of get_tag_summary that joins nothing into an empty string
\* instead of returning the sentinel
GetTagSummaryNoSentinel(has, idx, tag_name, campaign, max_length) ==
    {IF documents = <<>>
     THEN [kind |-> "text", tag_name |-> tag_name, docs |-> <<>>,
           kept |-> 0, ellipsis |-> FALSE]
     ELSE Summary(tag_name, documents, max_length) :
        documents \in SearchByTagName(has, idx, tag_name, campaign, SummaryK)}

\* TagRetriever.get_tag_summary: the possible results
GetTagSummary(has, idx, tag_name, campaign, max_length) ==
    {Summary(tag_name, documents, max_length) :
        documents \in SearchByTagName(has, idx, tag_name, campaign, SummaryK)}

\* TagRetriever.get_tag_metadata: the possible results, <<>> for the empty
\* dict; the two searches are separate calls of the index
GetTagMetadata(has, idx, tag_name, campaign) ==
    UNION {
        IF documents = <<>> THEN {<<>>}
        ELSE {<<[metadata |-> documents[1].metadata,
                 total_documents |-> Len(all_docs),
                 total_content_length |-> JoinedLen(all_docs, 0),
                 average_chunk_size |->
                     IF all_docs # <<>> THEN JoinedLen(all_docs, 0) \div Len(all_docs)
                     ELSE 0]>> :
                all_docs \in SearchByTagName(has, idx, tag_name, campaign, MetadataK)}
        : documents \in SearchByTagName(has, idx, tag_name, campaign, 1)}

\* a variant of the property that asks the manager on every read
VectorstoreOnAlwaysAsk(vs, st, fs, t, o) ==
    LET r == GetVectorstoreOn(st, fs, t, o)
    IN  [st |-> r.st, vs |-> IF r.result = "handle" THEN "handle" ELSE "None",
         raised |-> r.result = "error"]

\* the property TagRetriever.vectorstore: the cached handle, or the result of
\* manager.get_vectorstore() when none is cached
VectorstoreOn(vs, st, fs, t, o) ==
    IF vs # "None" THEN [st |-> st, vs |-> vs, raised |-> FALSE]
    ELSE LET r == GetVectorstoreOn(st, fs, t, o)
         IN  [st |-> r.st, vs |-> IF r.result = "handle" THEN "handle" ELSE "None",
              raised |-> r.result = "error"]

(***************************************************************************)
(* SpecRetr: the retriever's queries over every index content of at most   *)
(* MaxChunks chunks drawn from the chunks of RetrDocs.  A retriever starts *)
(* either holding a handle to the index or, the corpus being empty,        *)
(* without one.                                                            *)
(***************************************************************************)
RetrDoc(p, v) == [page_content |-> v, metadata |-> ExtractMetadata(p)]

RetrDocs ==
    { RetrDoc(<<Dir("global"), Dir("tags"), Txt("a")>>, 1),
      RetrDoc(<<Dir("global"), Dir("tags"), Txt("b")>>, 2),
      RetrDoc(<<Dir("campaigns"), Dir("c1"), Dir("tags"), Txt("a")>>, 2),
      RetrDoc(<<Dir("campaigns"), Dir("c1"), Dir("tags"), Txt("b")>>, 1),
      RetrDoc(<<Dir("campaigns"), Dir("c2"), Dir("tags"), Txt("a")>>, 1) }

RetrChunks == SplitDocuments(RetrDocs)

\* the bags over RetrChunks of at most n chunks
RECURSIVE BagsUpTo(_)
BagsUpTo(n) ==
    IF n = 0 THEN {EmptyBag}
    ELSE BagsUpTo(n - 1) \cup {b (+) SetToBag({ch}) : b \in BagsUpTo(n - 1), ch \in RetrChunks}

QueryArgs == {"", "q"}
RetrTagArgs == {"a", "b"}
RetrCampaignArgs == {None, "", "c1"}
\* max_length: the default, the length of a short chunk, and that length
\* plus the separator the method appends
MaxLengthArgs == {DefaultMaxLength, DocLen(1), DocLen(1) + 2}
TagListArgs == {<<>>, <<"a">>, <<"a", "b">>, <<"b", "a">>, <<"a", "a">>}

InitRetr ==
    /\ files = <<>>
    /\ now = 0
    /\ ret = NoRet
    /\ docs = NoDocs
    /\ hits = NoHits
    /\ calls = NoCalls
    /\ \/ /\ vectorstore = "handle"
          /\ index \in BagsUpTo(MaxChunks)
          /\ storeFiles = TRUE
          /\ ckptFile = <<0>>
       \/ /\ vectorstore = "None"
          /\ index = EmptyBag
          /\ storeFiles = FALSE
          /\ ckptFile = <<>>

\* the frame of a query: the caller has consumed the previous result, and
\* resolving self.vectorstore leaves behind what get_vectorstore did
Resolved(g) ==
    /\ hits = NoHits
    /\ storeFiles' = g.st.store
    /\ index' = g.st.idx
    /\ ckptFile' = g.st.ck
    /\ vectorstore' = g.vs
    /\ UNCHANGED <<calls, files, now, ret, docs>>

\* similarity_search(query, k, campaign)
SearchTagsCall(q, k, c, o) ==
    LET g == VectorstoreOn(vectorstore, Store, files, now, o)
    IN  /\ Resolved(g)
        /\ \E r \in (IF g.raised THEN {<<>>}
                     ELSE SearchTags(g.vs = "handle", g.st.idx, q, k, c)) :
              hits' = [op |-> "similarity_search", query |-> q, tag |-> "", tags |-> <<>>,
                       campaign |-> c, k |-> k, raised |-> g.raised, out |-> r,
                       fallback |-> <<>>, max_length |-> 0]

\* search_by_tag(tag_name, campaign, k)
SearchByTagNameCall(t, c, k, o) ==
    LET g == VectorstoreOn(vectorstore, Store, files, now, o)
    IN  /\ Resolved(g)
        /\ \E r \in (IF g.raised THEN {<<>>}
                     ELSE SearchByTagName(g.vs = "handle", g.st.idx, t, c, k)) :
              hits' = [op |-> "search_by_tag", query |-> "", tag |-> t, tags |-> <<>>,
                       campaign |-> c, k |-> k, raised |-> g.raised, out |-> r,
                       fallback |-> <<>>, max_length |-> 0]

\* assemble_persona_context(tags, query, campaign, k)
GetRelevantTagsForPersonaCall(ts, q, c, k, o) ==
    LET g == VectorstoreOn(vectorstore, Store, files, now, o)
    IN  /\ Resolved(g)
        /\ \E r \in (IF g.raised THEN {[out |-> <<>>, fallback |-> <<>>]}
                     ELSE GetRelevantTagsForPersona(g.vs = "handle", g.st.idx, ts, q, c, k)) :
              hits' = [op |-> "assemble_persona_context", query |-> q, tag |-> "",
                       tags |-> ts, campaign |-> c, k |-> k, raised |-> g.raised,
                       out |-> r.out, fallback |-> r.fallback, max_length |-> 0]

\* tag_summary(tag_name, campaign, max_length)
GetTagSummaryCall(t, c, m, o) ==
    LET g == VectorstoreOn(vectorstore, Store, files, now, o)
    IN  /\ Resolved(g)
        /\ \E r \in (IF g.raised THEN {<<>>}
                     ELSE {<<x>> : x \in GetTagSummary(g.vs = "handle", g.st.idx, t, c, m)}) :
              hits' = [op |-> "tag_summary", query |-> "", tag |-> t, tags |-> <<>>,
                       campaign |-> c, k |-> SummaryK, raised |-> g.raised, out |-> r,
                       fallback |-> <<>>, max_length |-> m]

\* metadata_report(tag_name, campaign)
GetTagMetadataCall(t, c, o) ==
    LET g == VectorstoreOn(vectorstore, Store, files, now, o)
    IN  /\ Resolved(g)
        /\ \E r \in (IF g.raised THEN {<<>>}
                     ELSE GetTagMetadata(g.vs = "handle", g.st.idx, t, c)) :
              hits' = [op |-> "metadata_report", query |-> "", tag |-> t, tags |-> <<>>,
                       campaign |-> c, k |-> 1, raised |-> g.raised, out |-> r,
                       fallback |-> <<>>, max_length |-> 0]

\* the caller drops the result of the last query
Forget ==
    /\ hits # NoHits
    /\ hits' = NoHits
    /\ UNCHANGED <<calls, files, ckptFile, storeFiles, index, now, ret, docs, vectorstore>>

NextRetr ==
    \/ Forget
    \/ \E q \in QueryArgs, k \in 1..MaxK, c \in RetrCampaignArgs :
          SearchTagsCall(q, k, c, "ok")
    \/ \E t \in RetrTagArgs, c \in RetrCampaignArgs, k \in 1..MaxK :
          SearchByTagNameCall(t, c, k, "ok")
    \/ \E ts \in TagListArgs, q \in QueryArgs, c \in RetrCampaignArgs,
          k \in 0..MaxK \cup {DefaultK} :
          GetRelevantTagsForPersonaCall(ts, q, c, k, "ok")
    \/ \E t \in RetrTagArgs, c \in RetrCampaignArgs, m \in MaxLengthArgs :
          GetTagSummaryCall(t, c, m, "ok")
    \/ \E t \in RetrTagArgs, c \in RetrCampaignArgs : GetTagMetadataCall(t, c, "ok")

SpecRetr == InitRetr /\ [][NextRetr]_vars

(***************************************************************************)
(* Claims about the retriever, checked under SpecRetr.                     *)
(***************************************************************************)
QueryOps == {"similarity_search", "search_by_tag", "assemble_persona_context"}

\* the chunks behind the last query's result, in result order
HitChunks ==
    IF hits.op = "assemble_persona_context"
    THEN [i \in DOMAIN hits.out |-> hits.out[i].chunk]
    ELSE hits.out

\* C1 (as claimed): a query made with campaign = None returns no chunk whose
\* campaign metadata is set.
C1_GlobalQueryReturnsNoCampaignChunk ==
    (hits.op \in QueryOps /\ hits.campaign = None) =>
        \A i \in DOMAIN HitChunks : HitChunks[i].metadata.campaign = None

\* C2: a query made with a non-empty campaign returns only chunks of that
\* campaign, and search_by_tag(t, ...) returns only chunks whose tag_name
\* is t.
C2_CampaignQueryExact ==
    /\ (hits.op \in QueryOps /\ Truthy(hits.campaign)) =>
          \A i \in DOMAIN HitChunks : HitChunks[i].metadata.campaign = hits.campaign
    /\ hits.op = "search_by_tag" =>
          \A i \in DOMAIN HitChunks : HitChunks[i].metadata.tag_name = hits.tag

\* search_by_tag("a", "c1", k) has returned fewer than k chunks although the
\* index holds a chunk of tag a outside campaign c1
C2_Witness ==
    /\ hits.op = "search_by_tag" /\ hits.campaign = "c1" /\ hits.tag = "a"
    /\ Len(hits.out) >= 1 /\ Len(hits.out) < hits.k
    /\ \E ch \in BagToSet(index) :
          ch.metadata.tag_name = "a" /\ ch.metadata.campaign # "c1"

\* s is an initial part of t
IsPrefixOf(s, t) == Len(s) <= Len(t) /\ SubSeq(t, 1, Len(s)) = s

\* the pairs of the last assemble_persona_context result that the loop over
\* the declared tags appended
NumTagEntries == Cardinality({i \in DOMAIN hits.out : hits.out[i].origin = "tag"})

\* C12: in a result of assemble_persona_context every pair of a declared
\* tag precedes every pair of the free-text search; the pairs of the
\* declared tags fall into one block per position of the caller's tag list,
\* the blocks in the list's order, each of at most 2 pairs labelled with its
\* tag and holding, in the index's order, the first chunks search_by_tag
\* returns for that tag; a pair of the free-text search is labelled with its
\* chunk's own tag_name.
C12_DeclaredTagsFirstInOrder ==
    (hits.op = "assemble_persona_context" /\ ~hits.raised) =>
        LET out == hits.out
            n == NumTagEntries
        IN  /\ \A i \in DOMAIN out : (out[i].origin = "tag") <=> (i <= n)
            /\ \A i \in DOMAIN out :
                  out[i].origin = "query" => out[i].tag_name = out[i].chunk.metadata.tag_name
            /\ \E f \in [1..n -> DOMAIN hits.tags] :
                  /\ \A i, j \in 1..n : i <= j => f[i] <= f[j]
                  /\ \A j \in DOMAIN hits.tags :
                        LET at == {i \in 1..n : f[i] = j}
                            block == [m \in 1..Cardinality(at) |->
                                         out[m + Cardinality({i \in 1..n : f[i] < j})]]
                        IN  /\ Cardinality(at) <= PerTagK
                            /\ \A m \in DOMAIN block : block[m].tag_name = hits.tags[j]
                            /\ \E r \in SearchByTagName(TRUE, index, hits.tags[j],
                                                        hits.campaign, PerTagK) :
                                  IsPrefixOf([m \in DOMAIN block |-> block[m].chunk], r)

\* a result holds a pair of tag b, then a pair of tag a, then a pair of the
\* free-text search, the tags having been given in the order b, a
C12_Witness ==
    /\ hits.op = "assemble_persona_context" /\ hits.tags = <<"b", "a">>
    /\ Len(hits.out) = 3
    /\ hits.out[1].tag_name = "b" /\ hits.out[1].origin = "tag"
    /\ hits.out[2].tag_name = "a" /\ hits.out[2].origin = "tag"
    /\ hits.out[3].origin = "query"

\* C13: a result of assemble_persona_context(tags, query, campaign, k) has
\* at most k pairs, and its pairs of declared tags are the first k pairs of
\* the list accumulated over the tags: all of that list when it is shorter
\* than k, and otherwise its first k pairs with no pair of the free-text
\* search after them.
C13_HardCap ==
    (hits.op = "assemble_persona_context" /\ ~hits.raised) =>
        /\ Len(hits.out) <= hits.k
        /\ \E acc \in TagEntries(TRUE, index, hits.tags, hits.campaign) :
              IF Len(acc) >= hits.k THEN hits.out = SubSeq(acc, 1, hits.k)
              ELSE IsPrefixOf(acc, hits.out)

\* with k = 1 and the tags a, b the result is one pair of tag a, although
\* the index holds a chunk of tag b and a query text was given
C13_Witness ==
    /\ hits.op = "assemble_persona_context" /\ hits.k = 1
    /\ hits.tags = <<"a", "b">> /\ hits.query = "q"
    /\ Len(hits.out) = 1 /\ hits.out[1].tag_name = "a"
    /\ \E ch \in BagToSet(index) : Matches(ch, TagFilter("b", hits.campaign))

\* C14 (as claimed): every content string of a result of
\* assemble_persona_context is at most 300 characters long.
C14_ContentAtMost300 ==
    hits.op = "assemble_persona_context" =>
        \A i \in DOMAIN hits.out : StrLen(hits.out[i].content) <= MaxContentLen

\* C14 (amended): every content string of a result of
\* assemble_persona_context holds at most the first 300 characters of its
\* chunk, followed by the 3-character marker exactly when the chunk is
\* longer than 300 characters: at most 303 characters in all.
C14_ContentAtMost300PlusMarker ==
    hits.op = "assemble_persona_context" =>
        \A i \in DOMAIN hits.out :
            LET e == hits.out[i]
            IN  /\ e.content.kept = Min(e.chunk.page_content.len, MaxContentLen)
                /\ e.content.ellipsis <=> (e.chunk.page_content.len > MaxContentLen)
                /\ StrLen(e.content) <= MaxContentLen + 3

\* a result holds a cut pair of a declared tag and a cut pair of the
\* free-text search
C14_Witness ==
    /\ hits.op = "assemble_persona_context"
    /\ \E i, j \in DOMAIN hits.out :
          /\ hits.out[i].origin = "tag" /\ hits.out[i].content.ellipsis
          /\ hits.out[j].origin = "query" /\ hits.out[j].content.ellipsis
          /\ StrLen(hits.out[j].content) = 303

\* no chunk of the index passes the filter of search_by_tag(t, c)
NoChunkOfTag(t, c) ==
    \A ch \in BagToSet(index) :
        ~(ch.metadata.tag_name = t /\ (Truthy(c) => ch.metadata.campaign = c))

\* no chunk of the index passes the filter of similarity_search(q, k, c)
NoChunkOfCampaign(c) ==
    \A ch \in BagToSet(index) : ~(Truthy(c) => ch.metadata.campaign = c)

\* C15: no read operation raises in SpecRetr, where the index opens without
\* error; when no chunk passes the operation's filter (the index holding
\* other chunks, holding none, or not existing because the corpus is empty)
\* similarity_search, search_by_tag and assemble_persona_context return the
\* empty sequence and tag_summary returns the sentinel naming the tag.
C15_AbsentContentNeverRaises ==
    /\ hits.op # "none" => ~hits.raised
    /\ (hits.op = "similarity_search" /\ NoChunkOfCampaign(hits.campaign))
          => hits.out = <<>>
    /\ (hits.op = "search_by_tag" /\ NoChunkOfTag(hits.tag, hits.campaign))
          => hits.out = <<>>
    /\ (/\ hits.op = "assemble_persona_context"
        /\ \A i \in DOMAIN hits.tags : NoChunkOfTag(hits.tags[i], hits.campaign)
        /\ hits.query # "" => NoChunkOfCampaign(hits.campaign))
          => hits.out = <<>>
    /\ (hits.op = "tag_summary" /\ NoChunkOfTag(hits.tag, hits.campaign))
          => /\ Len(hits.out) = 1
             /\ hits.out[1].kind = "sentinel" /\ hits.out[1].tag_name = hits.tag

\* tag_summary has returned the sentinel for a tag of which the index holds
\* chunks in another campaign only
C15_Witness ==
    /\ hits.op = "tag_summary" /\ hits.campaign = "c1" /\ hits.tag = "a"
    /\ hits.out[1].kind = "sentinel"
    /\ vectorstore = "handle"
    /\ \E ch \in BagToSet(index) :
          ch.metadata.tag_name = "a" /\ ch.metadata.campaign # "c1"

\* a first query on an empty corpus, where no index can be built, has
\* returned the empty sequence and left the retriever without a handle
C15_WitnessNoIndex ==
    /\ hits.op \in QueryOps /\ hits.out = <<>> /\ ~hits.raised
    /\ vectorstore = "None" /\ ~storeFiles

\* the chunks of the index, copies counted, that carry tag t and, when a
\* campaign c is given, campaign c
NumStored(t, c) ==
    LET of == {ch \in BagToSet(index) :
                  ch.metadata.tag_name = t /\ (Truthy(c) => ch.metadata.campaign = c)}
    IN  BagCardinality([ch \in of |-> index[ch]])

\* the pairs the loop over the first n declared tags accumulates
RECURSIVE AccLen(_, _, _)
AccLen(ts, c, n) ==
    IF n = 0 THEN 0 ELSE AccLen(ts, c, n - 1) + Min(PerTagK, NumStored(ts[n], c))

\* C22: an assemble_persona_context call on an open index makes a free-text
\* search exactly when the query is non-empty and the declared tags have
\* accumulated fewer than k pairs; it makes one, with the query, the limit
\* k minus the accumulated pairs and the caller's campaign; and with an
\* empty query the result holds pairs of declared tags only.
C22_FallbackExactlyWhenShort ==
    (hits.op = "assemble_persona_context" /\ ~hits.raised /\ vectorstore = "handle") =>
        LET acc == AccLen(hits.tags, hits.campaign, Len(hits.tags))
        IN  /\ hits.fallback # <<>> <=> (hits.query # "" /\ acc < hits.k)
            /\ hits.fallback # <<>> =>
                  hits.fallback = <<[query |-> hits.query, k |-> hits.k - acc,
                                    campaign |-> hits.campaign]>>
            /\ hits.fallback = <<>> =>
                  \A i \in DOMAIN hits.out : hits.out[i].origin = "tag"
            /\ \A i \in DOMAIN hits.out :
                  hits.out[i].origin = "query" => i > acc

\* with k = 3 and two pairs accumulated for tag a the free-text search has
\* run with limit 1 and added a pair
C22_Witness ==
    /\ hits.op = "assemble_persona_context" /\ hits.k = 3 /\ hits.tags = <<"a">>
    /\ hits.fallback # <<>> /\ hits.fallback[1].k = 1
    /\ Len(hits.out) = 3 /\ hits.out[3].origin = "query"

\* C23: with an empty query and 2 * len(tags) <= k, the result on an open
\* index holds, tag by tag in the caller's order, min(2, chunks stored for
\* the tag) pairs labelled with the tag and made from chunks of the tag;
\* the content of a pair is its chunk's text, whole when the chunk has at
\* most 300 characters and else its first 300 characters and the marker.
C23_PerTagEntriesAndTruncation ==
    (/\ hits.op = "assemble_persona_context" /\ ~hits.raised /\ vectorstore = "handle"
     /\ hits.query = "" /\ PerTagK * Len(hits.tags) <= hits.k) =>
        /\ Len(hits.out) = AccLen(hits.tags, hits.campaign, Len(hits.tags))
        /\ \A n \in DOMAIN hits.tags :
              \A i \in (AccLen(hits.tags, hits.campaign, n - 1) + 1)
                        ..AccLen(hits.tags, hits.campaign, n) :
                  /\ hits.out[i].tag_name = hits.tags[n]
                  /\ hits.out[i].chunk.metadata.tag_name = hits.tags[n]
                  /\ BagIn(hits.out[i].chunk, index)
        /\ \A i \in DOMAIN hits.out :
              LET e == hits.out[i]
                  len == e.chunk.page_content.len
              IN  /\ e.content.text = e.chunk.page_content
                  /\ len <= MaxContentLen =>
                        (e.content.kept = len /\ ~e.content.ellipsis)
                  /\ len > MaxContentLen =>
                        (e.content.kept = MaxContentLen /\ e.content.ellipsis)

\* tags [b, a], k = 10 and no query: two pairs of tag b, both cut, then one
\* pair of tag a, whole
C23_Witness ==
    /\ hits.op = "assemble_persona_context" /\ hits.query = "" /\ hits.k = DefaultK
    /\ hits.tags = <<"b", "a">> /\ Len(hits.out) = 3
    /\ hits.out[1].content.ellipsis /\ hits.out[2].content.ellipsis
    /\ hits.out[3].tag_name = "a" /\ ~hits.out[3].content.ellipsis

\* the length of the texts of the chunks of a summary joined by "\n\n"
SummaryJoinedLen(x) == JoinedLen(x.docs, 2) - 2

\* C24 (as claimed): a tag_summary that found chunks uses at most 3 of
\* them; when their texts joined by blank lines fit in max_length it
\* returns the joined text whole and without the marker, and otherwise the
\* first max_length characters and the marker; the marker therefore
\* appears only when chunk text has been cut off.
C24_SummaryCutOnlyWhenTooLong ==
    (hits.op = "tag_summary" /\ ~hits.raised /\ hits.out[1].kind = "text") =>
        LET x == hits.out[1]
            joined == SummaryJoinedLen(x)
        IN  /\ Len(x.docs) <= SummaryK
            /\ joined <= hits.max_length => (x.kept = joined /\ ~x.ellipsis)
            /\ joined > hits.max_length => (x.kept = hits.max_length /\ x.ellipsis)
            /\ x.ellipsis => x.kept < joined

(***************************************************************************)
(* SpecUse: a TagRetriever working on the storage the manager maintains,   *)
(* over a changing source tree.  The retriever starts without a handle;    *)
(* each query is one step and includes the get_vectorstore() call its      *)
(* first use makes.  The manager's rebuild is run from the command line    *)
(* (create_vectorstore.py, manage_content.py).                             *)
(***************************************************************************)
UsePaths == {GlobalA}

\* TagRetriever.refresh_vectorstore
RefreshVectorstore(o) ==
    LET r == GetVectorstoreOn(Store, files, now, o)
    IN  /\ hits = NoHits
        /\ Bounded(r.st.idx)
        /\ storeFiles' = r.st.store
        /\ index' = r.st.idx
        /\ ckptFile' = r.st.ck
        /\ vectorstore' = IF r.result = "handle" THEN "handle" ELSE "None"
        /\ ret' = [op |-> "refresh", clean |-> FALSE, result |-> r.result,
                   rebuilt |-> r.rebuilt]
        /\ UNCHANGED <<calls, files, now, docs, hits>>

\* TagRetriever.__init__: a new retriever (a new process) holds no handle
NewRetriever ==
    /\ vectorstore # "None"
    /\ hits = NoHits
    /\ vectorstore' = "None"
    /\ UNCHANGED <<calls, files, ckptFile, storeFiles, index, now, ret, docs, hits>>

\* the queries of SpecUse
UseQuery(o) ==
    \/ SearchTagsCall("q", 1, None, o)
    \/ SearchByTagNameCall("a", None, 1, o)
    \/ GetRelevantTagsForPersonaCall(<<"a">>, "q", None, 1, o)
    \/ GetTagSummaryCall("a", None, DefaultMaxLength, o)
    \/ GetTagMetadataCall("a", None, o)

NextUse ==
    \/ \E p \in UsePaths : WriteFile(p, 1)
    \/ Tick
    \/ \E c \in BOOLEAN, o \in Outcomes : CreateVectorstore(c, o)
    \/ \E o \in Outcomes : UseQuery(o) /\ Bounded(index')
    \/ \E o \in Outcomes : RefreshVectorstore(o)
    \/ NewRetriever
    \/ Forget

SpecUse == Init /\ [][NextUse]_vars

(***************************************************************************)
(* Claims about a retriever's use of the storage, checked under SpecUse.   *)
(***************************************************************************)
\* C11 (as claimed): a step in which a ContextAssembler operation returns
\* leaves the index contents and the checkpoint unchanged.
C11_QueriesNeverWrite ==
    [][ (hits = NoHits /\ hits' # NoHits) =>
            (index' = index /\ ckptFile' = ckptFile) ]_vars

\* C20 (as claimed): a step that changes an existing checkpoint is no query
\* step but a rebuild (run directly or by get_or_refresh) that has returned
\* a handle, and it writes the current time; an existing checkpoint is never
\* deleted and its timestamp never decreases.
C20_CheckpointOnlyBySuccessfulRebuild ==
    [][ ckptFile # <<>> =>
            /\ ckptFile' # <<>> /\ ckptFile'[1] >= ckptFile[1]
            /\ ckptFile' # ckptFile =>
                  /\ hits' = hits
                  /\ ret'.rebuilt /\ ret'.result = "handle"
                  /\ ckptFile' = <<now>> ]_vars

\* the storage and the handle are as a get_or_refresh call with some outcome
\* of the index leaves them
AsGetVectorstoreLeaves(raised) ==
    \E o \in Outcomes :
        LET r == GetVectorstoreOn(Store, files, now, o)
        IN  /\ storeFiles' = r.st.store /\ index' = r.st.idx /\ ckptFile' = r.st.ck
            /\ vectorstore' = (IF r.result = "handle" THEN "handle" ELSE "None")
            /\ raised = (r.result = "error")

\* C26: a query of a retriever that holds a handle keeps the handle and
\* leaves index storage and checkpoint as they are, whatever the state of
\* the source files; a query of a retriever that holds none, and every
\* refresh_vectorstore, leaves storage and handle as a get_or_refresh call
\* leaves them.
C26_StalenessOnlyWithoutHandle ==
    [][ /\ (hits = NoHits /\ hits' # NoHits) =>
              /\ vectorstore = "handle" =>
                    /\ vectorstore' = "handle"
                    /\ storeFiles' = storeFiles /\ index' = index
                    /\ ckptFile' = ckptFile
              /\ vectorstore = "None" => AsGetVectorstoreLeaves(hits'.raised)
        /\ (ret'.op = "refresh" /\ ret' # ret) =>
              AsGetVectorstoreLeaves(ret'.result = "error") ]_vars

\* a retriever holding a handle has answered a query from an index that
\* is_stale() reports stale and that lacks the chunks of the current files
C26_Witness ==
    /\ hits # NoHits /\ ~hits.raised /\ vectorstore = "handle"
    /\ NeedsUpdate(files, ckptFile)
    /\ ckptFile # <<>> /\ ckptFile[1] < now
    /\ \E ch \in CurrentSplits : ~BagIn(ch, index)

\* a retriever has asked the manager, got null over the empty corpus and
\* still holds no handle
C26_WitnessNull ==
    /\ hits # NoHits /\ ~hits.raised /\ vectorstore = "None"
    /\ files = <<>>

(***************************************************************************)
(* The manager's calls in steps.  A call of get_vectorstore or             *)
(* create_vectorstore by process p advances one file-system or index       *)
(* access at a time, so that calls of other processes and changes of the   *)
(* source tree fall between its steps.  The manager takes no lock.         *)
(***************************************************************************)
Busy(p) == calls[p].pc # "idle"

\* process p enters a call: two calls in progress together end seriality
Enter(p, op, pc) ==
    [q \in Procs |->
        IF q = p
        THEN [pc |-> pc, op |-> op, splits |-> {}, result |-> "none",
              serial |-> calls[p].serial /\ \A r \in Procs \ {p} : ~Busy(r)]
        ELSE [calls[q] EXCEPT !.serial = calls[q].serial /\ ~Busy(q)]]

\* process p moves on to pc
Goto(p, pc) == [calls EXCEPT ![p].pc = pc]

\* process p returns result from its call
Return(p, result) == [calls EXCEPT ![p].pc = "idle", ![p].result = result]

\* get_vectorstore() is called
BeginGetVectorstore(p) ==
    /\ ~Busy(p)
    /\ calls' = Enter(p, "get_or_refresh", "check_empty")
    /\ UNCHANGED <<files, ckptFile, storeFiles, index, now, ret, docs, vectorstore, hits>>

\* create_vectorstore(clean_start) is called
BeginCreateVectorstore(p, clean_start) ==
    /\ ~Busy(p)
    /\ calls' = Enter(p, "rebuild", IF clean_start THEN "clean" ELSE "load")
    /\ UNCHANGED <<files, ckptFile, storeFiles, index, now, ret, docs, vectorstore, hits>>

\* get_vectorstore, the test of the vectorstore directory
CheckEmpty(p) ==
    /\ calls[p].pc = "check_empty"
    /\ calls' = Goto(p, IF ~storeFiles THEN "load" ELSE "check_stale")
    /\ UNCHANGED <<files, ckptFile, storeFiles, index, now, ret, docs, vectorstore, hits>>

\* a variant of the needs_update() test that always finds the index stale
CheckStaleAlways(p) ==
    /\ calls[p].pc = "check_stale"
    /\ calls' = Goto(p, "load")
    /\ UNCHANGED <<files, ckptFile, storeFiles, index, now, ret, docs, vectorstore, hits>>

\* get_vectorstore, the needs_update() test
CheckStale(p) ==
    /\ calls[p].pc = "check_stale"
    /\ calls' = Goto(p, IF NeedsUpdate(files, ckptFile) THEN "load" ELSE "open")
    /\ UNCHANGED <<files, ckptFile, storeFiles, index, now, ret, docs, vectorstore, hits>>

\* get_vectorstore, opening the existing index
OpenIndex(p, o) ==
    /\ calls[p].pc = "open"
    /\ calls' = Return(p, IF o = "ok" THEN "handle" ELSE "error")
    /\ UNCHANGED <<files, ckptFile, storeFiles, index, now, ret, docs, vectorstore, hits>>

\* create_vectorstore, the clean_vectorstore() call
CleanStep(p) ==
    /\ calls[p].pc = "clean"
    /\ storeFiles' = CleanVectorstore(Store).store
    /\ index' = CleanVectorstore(Store).idx
    /\ calls' = Goto(p, "load")
    /\ UNCHANGED <<files, ckptFile, now, ret, docs, vectorstore, hits>>

\* create_vectorstore, loading and splitting the documents
LoadStep(p) ==
    /\ calls[p].pc = "load"
    /\ LET documents == LoadAllDocuments(files)
       IN  calls' = IF documents = {} THEN Return(p, "null")
                    ELSE [calls EXCEPT ![p].pc = "build",
                                       ![p].splits = SplitDocuments(documents)]
    /\ UNCHANGED <<files, ckptFile, storeFiles, index, now, ret, docs, vectorstore, hits>>

\* create_vectorstore, the embedding and the create/add call of the index
BuildStep(p, o) ==
    LET st == BuildIndex(Store, calls[p].splits, o)
    IN  /\ calls[p].pc = "build"
        /\ Bounded(st.idx)
        /\ storeFiles' = st.store
        /\ index' = st.idx
        /\ calls' = IF o = "ok" THEN Goto(p, "checkpoint") ELSE Return(p, "error")
        /\ UNCHANGED <<files, ckptFile, now, ret, docs, vectorstore, hits>>

\* create_vectorstore, the update_last_updated() call and the return
CheckpointStep(p) ==
    /\ calls[p].pc = "checkpoint"
    /\ ckptFile' = UpdateLastUpdated(now)
    /\ calls' = Return(p, "handle")
    /\ UNCHANGED <<files, storeFiles, index, now, ret, docs, vectorstore, hits>>

\* a step inside a call of process p, after the clean_start branch
CallStep(p) ==
    \/ CheckEmpty(p)
    \/ CheckStale(p)
    \/ \E o \in {"ok", "raise"} : OpenIndex(p, o)
    \/ LoadStep(p)
    \/ \E o \in Outcomes : BuildStep(p, o)
    \/ CheckpointStep(p)

\* the clock advances while calls are in progress
TickDuring ==
    /\ now < MaxTime
    /\ now' = now + 1
    /\ UNCHANGED <<calls, files, ckptFile, storeFiles, index, ret, docs, vectorstore, hits>>

(***************************************************************************)
(* SpecConc: processes calling get_vectorstore side by side over a corpus  *)
(* that does not change, starting without an index.                        *)
(***************************************************************************)
InitConc ==
    /\ \E S \in SUBSET SrcPaths : \E v \in Versions :
          /\ S # {}
          /\ files = [p \in S |-> [mtime |-> 0, ver |-> IF v \in VersionsOf(p) THEN v ELSE 1,
                                    readable |-> TRUE]]
    /\ ckptFile = <<>>
    /\ storeFiles = FALSE
    /\ index = EmptyBag
    /\ now = 0
    /\ ret = NoRet
    /\ docs = NoDocs
    /\ vectorstore = "None"
    /\ hits = NoHits
    /\ calls = NoCalls

NextConc ==
    \/ \E p \in Procs : BeginGetVectorstore(p)
    \/ \E p \in Procs : CallStep(p)
    \/ TickDuring

SpecConc == InitConc /\ [][NextConc]_vars

\* C21: as long as no two get_or_refresh executions have been in progress
\* at the same time, the index holds no chunk twice.
Serial == \A p \in Procs : calls[p].serial

C21_SerializedCallsNeverDuplicate ==
    Serial => \A ch \in BagToSet(index) : CopiesIn(ch, index) = 1

\* two interleaved executions have both returned a handle and the index
\* holds every chunk of the corpus twice
C21_Witness ==
    /\ ~Serial
    /\ \A p \in Procs : ~Busy(p) /\ calls[p].result = "handle"
    /\ index # EmptyBag
    /\ \A ch \in BagToSet(index) : CopiesIn(ch, index) = 2

(***************************************************************************)
(* SpecRace: one process calling create_vectorstore and get_vectorstore    *)
(* in steps while source files are written and the clock advances.         *)
(***************************************************************************)
NextRace ==
    \/ \E p \in SrcPaths : \E v \in VersionsOf(p) : WriteFile(p, v)
    \/ TickDuring
    \/ \E c \in BOOLEAN : BeginCreateVectorstore(1, c)
    \/ BeginGetVectorstore(1)
    \/ CleanStep(1)
    \/ CallStep(1)

SpecRace == Init /\ [][NextRace]_vars

\* C25 (as claimed): whenever the index is non-empty and is_stale() is
\* false, the index holds the chunks of the current content of every
\* readable source file.
C25_FreshIndexHoldsCurrentContent ==
    (index # EmptyBag /\ ~NeedsUpdate(files, ckptFile)) =>
        \A ch \in CurrentSplits : BagIn(ch, index)

\* a rebuild has returned a handle, a file written strictly before the
\* checkpoint's time is not reported stale, and the index lacks a chunk of
\* its current content
C25_ModifiedWhileRebuilding ==
    /\ ~Busy(1) /\ calls[1].op = "rebuild" /\ calls[1].result = "handle"
    /\ ~NeedsUpdate(files, ckptFile)
    /\ \E p \in DOMAIN files :
          /\ files[p].mtime < ckptFile[1]
          /\ \E ch \in SplitDocument(LoadDocument(files, p)) : ~BagIn(ch, index)

====
